---- MODULE Spec2Model ----
(***************************************************************************)
(* SysEx preset transfer of mcp-patchwork (MicroFreak driver).             *)
(*                                                                         *)
(* The module models                                                       *)
(*   - the SysEx builders and parsers of src/midi/sysex.ts as operators    *)
(*     over byte sequences (a JavaScript number[] is a sequence of         *)
(*     naturals, index i of the source is index i+1 here),                 *)
(*   - the SysEx part of HardwareMidiPort (src/midi/hardware-port.ts),     *)
(*   - readPreset and readPresetName of src/drivers/microfreak/preset.ts   *)
(*     as a state machine driven by three kinds of events: the call, an    *)
(*     inbound frame handed to the port's listener, and a timer callback.  *)
(*                                                                         *)
(* A nullable result of the source is a sequence of length 0 (null) or 1   *)
(* (the value).                                                            *)
(***************************************************************************)
EXTENDS Integers, Sequences, FiniteSets, TLC

VARIABLES
    \* ---- HardwareMidiPort: [isOpen, input, listening, sysexCallback]
    port,
    \* ---- the call and its promise
    op,              \* "none" | "readPreset" | "readPresetName"
    slot,            \* argument slot
    chunkCount,      \* argument chunkCount (readPreset)
    settled,         \* "idle" | "null" | "pending" | "resolved" | "rejected"
    result,          \* value the promise resolved with (a record) or <<>>
    error,           \* reason the promise rejected with, or "none"
    \* ---- closure state of readPreset
    presetName, category, dataChunks, currentChunk,
    waitingForName, waitingForDump, waitingForData,
    \* ---- pending setTimeout callbacks
    timers,          \* set of the pending one-shot timers
    nextChunkTimers, \* number of pending "setTimeout(() => requestNextChunk(), 15)"
    \* ---- observation of the run
    sent,            \* every port.sendSysEx call: [msg, ok]
    lastEvent,       \* the event that produced this state
    responses,       \* 42-byte chunk responses handed to readPreset's listener
                     \* while it was waiting for data
    \* ---- a call of a pure function (specification PureSpec)
    pure,            \* [fn, arg, out]
    \* ---- the loop of scanPresets (specification ScanSpec)
    scan             \* [pc, presets, timeouts, unanswered, answered]

vars == <<port, op, slot, chunkCount, settled,
          result, error, presetName, category, dataChunks, currentChunk,
          waitingForName, waitingForDump, waitingForData, timers,
          nextChunkTimers, sent, lastEvent, responses, pure, scan>>

(***************************************************************************)
(* JavaScript array helpers                                                *)
(***************************************************************************)
None == <<>>
Some(v) == <<v>>

\* a.slice(from, to) for 0 <= from, 0 <= to (0-based, to exclusive)
Slice(a, from, to) ==
    LET hi == IF to > Len(a) THEN Len(a) ELSE to
    IN  IF from >= hi THEN <<>> ELSE SubSeq(a, from + 1, hi)

\* a.slice(from)
SliceFrom(a, from) == Slice(a, from, Len(a))

\* a[i] || 0   (undefined, and 0, give 0)
AtOrZero(a, i) == IF i >= 0 /\ i < Len(a) THEN a[i + 1] ELSE 0

(***************************************************************************)
(* src/midi/sysex.ts                                                       *)
(***************************************************************************)
SYSEX_START == 240
SYSEX_END == 247
ARTURIA_MANUFACTURER_ID == <<0, 32, 107>>
MICROFREAK_DEVICE_ID == 7
REQUEST_PRESET_DATA == 24
REQUEST_PRESET_NAME == 25
RESPONSE_DATA == {22, 23}
RESPONSE_NAME == 82

buildSysExMessage(manufacturerId, data) ==
    <<SYSEX_START>> \o manufacturerId \o data \o <<SYSEX_END>>

buildArturiaSysEx(data) ==
    buildSysExMessage(ARTURIA_MANUFACTURER_ID, <<MICROFREAK_DEVICE_ID>> \o data)

buildPresetNameRequest(bank, preset, sequence) ==
    buildArturiaSysEx(<<1, sequence, 1, REQUEST_PRESET_NAME, bank, preset, 0>>)

buildPresetDumpRequest(bank, preset) ==
    buildArturiaSysEx(<<1, 1, 1, REQUEST_PRESET_NAME, bank, preset, 1>>)

buildPresetDataRequest(chunkNumber) ==
    buildArturiaSysEx(<<1, chunkNumber, 1, REQUEST_PRESET_DATA, 0>>)

\* null, or [manufacturerId, data]
parseSysExMessage_NoEndCheck(message) ==
    IF Len(message) < 4 THEN None
    ELSE IF message[1] # SYSEX_START THEN None
    ELSE LET manufacturerIdLength == IF message[2] = 0 THEN 3 ELSE 1
         IN  Some([manufacturerId |-> Slice(message, 1, 1 + manufacturerIdLength),
                   data |-> Slice(message, 1 + manufacturerIdLength, Len(message) - 1)])

parseSysExMessage(message) ==
    IF Len(message) < 4 THEN None
    ELSE IF message[1] # SYSEX_START THEN None
    ELSE IF message[Len(message)] # SYSEX_END THEN None
    ELSE LET manufacturerIdLength == IF message[2] = 0 THEN 3 ELSE 1
         IN  Some([manufacturerId |-> Slice(message, 1, 1 + manufacturerIdLength),
                   data |-> Slice(message, 1 + manufacturerIdLength, Len(message) - 1)])

\* null, or the bytes after the device id
parseArturiaSysEx(message) ==
    LET parsed == parseSysExMessage(message)
    IN  IF parsed = None THEN None
        ELSE IF Len(parsed[1].manufacturerId) # 3 THEN None
        ELSE IF parsed[1].manufacturerId # ARTURIA_MANUFACTURER_ID THEN None
        ELSE IF Len(parsed[1].data) < 1 THEN None
        ELSE IF parsed[1].data[1] # MICROFREAK_DEVICE_ID THEN None
        ELSE Some(SliceFrom(parsed[1].data, 1))

\* the while loop of parsePresetNameResponse: the characters of nameBytes from
\* index i up to the first 0 or the end of the array
RECURSIVE ReadName(_, _)
ReadName(nameBytes, i) ==
    IF i < Len(nameBytes) /\ nameBytes[i + 1] # 0
    THEN <<nameBytes[i + 1]>> \o ReadName(nameBytes, i + 1)
    ELSE <<>>

\* null, or [name, category]; a name is the sequence of its character codes
parsePresetNameResponse(message) ==
    LET data == parseArturiaSysEx(message)
    IN  IF data = None THEN None
        ELSE IF Len(data[1]) < 8 THEN None
        ELSE IF data[1][8] # RESPONSE_NAME THEN None
        ELSE Some([category |-> AtOrZero(data[1], 19),
                   name |-> ReadName(SliceFrom(data[1], 8), 4)])

\* null, or the bytes of data from index 8 on
parsePresetDataResponse(message) ==
    LET data == parseArturiaSysEx(message)
    IN  IF data = None THEN None
        ELSE IF Len(data[1]) < 8 THEN None
        ELSE IF data[1][8] \notin RESPONSE_DATA THEN None
        ELSE IF Len(data[1]) + 5 # 42 THEN None
        ELSE Some(SliceFrom(data[1], 8))

PRESET_CATEGORIES ==
    <<"Bass", "Brass", "Keys", "Lead", "Organ", "Pad", "Percussion", "Sequence",
      "SFX", "Strings", "Template">>

getCategoryName(cat) ==
    IF cat < 0 \/ cat >= Len(PRESET_CATEGORIES) THEN "Unknown"
    ELSE PRESET_CATEGORIES[cat + 1]

(***************************************************************************)
(* src/midi/hardware-port.ts, the SysEx part of HardwareMidiPort           *)
(***************************************************************************)
\* sendSysEx's return value; transportOk is false when output.sendMessage throws
sendSysEx(p, message, transportOk) ==
    IF ~p.isOpen THEN FALSE
    ELSE IF Len(message) < 2 THEN FALSE
    ELSE IF message[1] # SYSEX_START THEN FALSE
    ELSE IF message[Len(message)] # SYSEX_END THEN FALSE
    ELSE transportOk

\* the port after enableSysExInput(callback); found: an input port of the
\* same name exists
enableSysExInput(p, callback, found) ==
    IF ~p.isOpen THEN p
    ELSE IF found
         THEN [p EXCEPT !.input = TRUE, !.listening = TRUE, !.sysexCallback = callback]
         ELSE [p EXCEPT !.input = TRUE, !.listening = FALSE]

\* the port after disableSysExInput()
disableSysExInput(p) ==
    IF p.input
    THEN [p EXCEPT !.input = FALSE, !.listening = FALSE, !.sysexCallback = "none"]
    ELSE p

(***************************************************************************)
(* src/drivers/microfreak/preset.ts                                        *)
(***************************************************************************)
MIN_CHUNK_COUNT == 40
MAX_CHUNK_COUNT == 146
CHUNK_SIZE == 32

bankOf(s) == IF s > 127 THEN 1 ELSE 0
presetNumberOf(s) == s % 128

detectFirmware(data) ==
    IF Len(data) > 0 /\ Len(data[1]) > 12
    THEN (IF data[1][13] = 12 THEN 1 ELSE 2)
    ELSE 2

isPresetSupported(data) ==
    IF Len(data) < 18 THEN TRUE
    ELSE LET c16 == data[17]
             pattern16 == Slice(c16, IF Len(c16) > 7 THEN Len(c16) - 7 ELSE 0, Len(c16))
             pattern17 == Slice(data[18], 0, 4)
         IN  ~(pattern16 = <<69, 80, 97, 110, 101, 108, 99>> /\ pattern17 = <<0, 3, 0, 0>>)

\* requestNextChunk(): one port.sendSysEx call, its result ignored
requestNextChunk(chunk, transportOk) ==
    LET chunkRequest == buildPresetDataRequest(chunk)
    IN  sent' = Append(sent, [msg |-> chunkRequest,
                              ok |-> sendSysEx(port, chunkRequest, transportOk)])

\* reject(reason) on a promise: only the first settlement counts
Reject(reason) ==
    IF settled = "pending"
    THEN settled' = "rejected" /\ error' = reason /\ result' = result
    ELSE UNCHANGED <<settled, error, result>>

Resolve(value) ==
    IF settled = "pending"
    THEN settled' = "resolved" /\ result' = value /\ error' = error
    ELSE UNCHANGED <<settled, error, result>>

\* what a listener leaves alone when it ignores a message
IgnoreMessage ==
    UNCHANGED <<port, settled, result, error, presetName, category,
                dataChunks, currentChunk, waitingForName,
                waitingForDump, waitingForData, timers, nextChunkTimers>>

\* mutant: the name response opens the data phase at once
AcceptName_SkipDumpPhase(parsed) ==
    /\ presetName' = parsed.name
    /\ category' = parsed.category
    /\ waitingForName' = FALSE
    /\ waitingForData' = TRUE
    /\ timers' = timers \cup {"dump"}
    /\ UNCHANGED <<port, settled, result, error, dataChunks, currentChunk,
                   waitingForDump, nextChunkTimers>>

\* readPreset's listener, the branch of a parsed name response
AcceptName(parsed) ==
    /\ presetName' = parsed.name
    /\ category' = parsed.category
    /\ waitingForName' = FALSE
    /\ waitingForDump' = TRUE
    /\ timers' = timers \cup {"dump"}
    /\ UNCHANGED <<port, settled, result, error, dataChunks, currentChunk,
                   waitingForData, nextChunkTimers>>

\* readPreset's listener, the branch of a parsed chunk of 32 bytes
AcceptChunk(parsed) ==
    /\ dataChunks' = Append(dataChunks, parsed)
    /\ currentChunk' = currentChunk + 1
    /\ IF currentChunk + 1 >= chunkCount
       THEN /\ port' = disableSysExInput(port)
            /\ Resolve([slot |-> slot,
                        category |-> category,
                        data |-> dataChunks',
                        bank |-> bankOf(slot),
                        name |-> presetName,
                        presetNumber |-> presetNumberOf(slot),
                        categoryName |-> getCategoryName(category),
                        firmware |-> detectFirmware(dataChunks'),
                        supported |-> isPresetSupported(dataChunks')])
            /\ UNCHANGED nextChunkTimers
       ELSE /\ nextChunkTimers' = nextChunkTimers + 1
            /\ UNCHANGED <<port, settled, result, error>>
    /\ UNCHANGED <<presetName, category, waitingForName, waitingForDump,
                   waitingForData, timers>>

\* mutant: the name branch is not guarded by waitingForName
readPresetListener_NoPhaseCheck(message) ==
    IF parsePresetNameResponse(message) # None
    THEN AcceptName(parsePresetNameResponse(message)[1])
    ELSE IgnoreMessage

\* mutant: a parsed chunk is taken whatever its length
readPresetListener_AnyChunkLength(message) ==
    IF waitingForName
    THEN LET parsed == parsePresetNameResponse(message)
         IN  IF parsed # None THEN AcceptName(parsed[1]) ELSE IgnoreMessage
    ELSE IF waitingForData
    THEN LET parsed == parsePresetDataResponse(message)
         IN  IF parsed # None THEN AcceptChunk(parsed[1]) ELSE IgnoreMessage
    ELSE IgnoreMessage

\* the listener readPreset passes to port.enableSysExInput; the progress
\* callback handlers.ts passes only logs, so the catch branch is never taken
readPresetListener(message) ==
    IF waitingForName
    THEN LET parsed == parsePresetNameResponse(message)
         IN  IF parsed # None THEN AcceptName(parsed[1]) ELSE IgnoreMessage
    ELSE IF waitingForData
    THEN LET parsed == parsePresetDataResponse(message)
         IN  IF parsed # None /\ Len(parsed[1]) = CHUNK_SIZE
             THEN AcceptChunk(parsed[1])
             ELSE IgnoreMessage
    ELSE IgnoreMessage

\* a name is a sequence of character codes
INIT_NAME == <<73, 78, 73, 84>>
FACTORY_PREFIX == <<70, 97, 99, 116, 111, 114, 121>>
WHITESPACE == {9, 10, 11, 12, 13, 32}

startsWith(name, prefix) ==
    Len(name) >= Len(prefix) /\ SubSeq(name, 1, Len(prefix)) = prefix

\* name.trim() === ''
trimIsEmpty(name) == \A i \in 1..Len(name) : name[i] \in WHITESPACE

isEmptyPreset(parsed) ==
    \/ parsed.name = INIT_NAME
    \/ startsWith(parsed.name, FACTORY_PREFIX)
    \/ trimIsEmpty(parsed.name)
    \/ parsed.category = 0

\* the PresetMetadata readPresetName resolves with
PresetMetadata(s, parsed) ==
    [slot |-> s,
     category |-> parsed.category,
     bank |-> bankOf(s),
     name |-> parsed.name,
     presetNumber |-> presetNumberOf(s),
     categoryName |-> getCategoryName(parsed.category),
     isEmpty |-> isEmptyPreset(parsed)]

IsFlaggedEmpty(p) == p.isEmpty

\* findEmptySlots applied to the list scanPresets returned
findEmptySlots(allPresets) ==
    LET emptyPresets == SelectSeq(allPresets, IsFlaggedEmpty)
    IN  [i \in 1..Len(emptyPresets) |-> emptyPresets[i].slot]

\* the listener readPresetName passes to port.enableSysExInput
readPresetNameListener(message) ==
    LET parsed == parsePresetNameResponse(message)
    IN  IF parsed # None
        THEN /\ port' = disableSysExInput(port)
             /\ Resolve(PresetMetadata(slot, parsed[1]))
             /\ UNCHANGED <<presetName, category, dataChunks, currentChunk,
                            waitingForName, waitingForDump, waitingForData,
                            timers, nextChunkTimers>>
        ELSE IgnoreMessage

\* mutant: the timeout closes the listener and rejects nothing
readPresetTimeout_NoReject ==
    /\ port' = disableSysExInput(port)
    /\ UNCHANGED <<settled, result, error>>

\* the callback of readPreset's setTimeout(..., 30000)
readPresetTimeout ==
    /\ port' = disableSysExInput(port)
    /\ Reject("Preset read timeout - MicroFreak not responding")

\* the callback of readPresetName's setTimeout(..., 2000)
readPresetNameTimeout ==
    /\ port' = disableSysExInput(port)
    /\ Reject("Preset name read timeout")

\* the outer setTimeout(..., 15) of readPreset's listener: send the dump
\* request (result ignored) and schedule the switch to the data phase
dumpRequestTimer(transportOk) ==
    LET dumpRequest == buildPresetDumpRequest(bankOf(slot), presetNumberOf(slot))
    IN  /\ sent' = Append(sent, [msg |-> dumpRequest,
                                 ok |-> sendSysEx(port, dumpRequest, transportOk)])
        /\ timers' = (timers \ {"dump"}) \cup {"chunkPhase"}
        /\ UNCHANGED <<port, settled, result, error, waitingForDump, waitingForData,
                       nextChunkTimers>>

\* mutant: the dump phase is left open when the first chunk is requested
chunkPhaseTimer_KeepsDumpPhase(transportOk) ==
    /\ waitingForData' = TRUE
    /\ requestNextChunk(currentChunk, transportOk)
    /\ timers' = timers \ {"chunkPhase"}
    /\ UNCHANGED <<port, settled, result, error, nextChunkTimers, waitingForDump>>

\* the inner setTimeout(..., 15): start requesting chunks
chunkPhaseTimer(transportOk) ==
    /\ waitingForDump' = FALSE
    /\ waitingForData' = TRUE
    /\ requestNextChunk(currentChunk, transportOk)
    /\ timers' = timers \ {"chunkPhase"}
    /\ UNCHANGED <<port, settled, result, error, nextChunkTimers>>

\* setTimeout(() => requestNextChunk(), 15) after an accepted chunk
nextChunkTimer(transportOk) ==
    /\ requestNextChunk(currentChunk, transportOk)
    /\ nextChunkTimers' = nextChunkTimers - 1
    /\ UNCHANGED <<port, settled, result, error, waitingForDump, waitingForData, timers>>

(***************************************************************************)
(* Inbound frames                                                          *)
(***************************************************************************)
ReplaceAt(f, i, v) == [f EXCEPT ![i] = v]

\* a frame of len bytes in the Arturia envelope with the byte disc where the
\* parsers read the response type (index 7 after the device id) and every
\* other payload byte equal to fill
MakeFrame(len, disc, fill) ==
    [i \in 1..len |->
        CASE i = 1 -> SYSEX_START
          [] i \in 2..4 -> ARTURIA_MANUFACTURER_ID[i - 1]
          [] i = 5 -> MICROFREAK_DEVICE_ID
          [] i = 13 -> disc
          [] i = len -> SYSEX_END
          [] OTHER -> fill]

\* a name response: the name, zero padded, at index 12 after the device id,
\* the category at index 19
NameFrame(name, cat) ==
    <<SYSEX_START>> \o ARTURIA_MANUFACTURER_ID \o <<MICROFREAK_DEVICE_ID>>
      \o <<1, 0, 1, 0, 0, 0, 0, RESPONSE_NAME, 0, 0, 0, 0>>
      \o name \o [i \in 1..(7 - Len(name)) |-> 0] \o <<cat, 0, SYSEX_END>>

GoodNameFrame == NameFrame(<<65, 98>>, 3)

\* the frames the device (or other traffic on the endpoint) may deliver
InboundFrames ==
    { GoodNameFrame,
      MakeFrame(42, 22, 5),                    \* data response, 42 bytes
      MakeFrame(43, 22, 5),                    \* data response, 43 bytes
      MakeFrame(43, 23, 5),
      ReplaceAt(MakeFrame(42, 22, 5), 42, 5),  \* no terminating 0xF7
      ReplaceAt(GoodNameFrame, Len(GoodNameFrame), 0),
      ReplaceAt(GoodNameFrame, 4, 33),         \* another vendor
      MakeFrame(42, 64, 5),                    \* unknown response type
      <<144, 60, 100>> }                       \* not a SysEx message

(***************************************************************************)
(* The state machine                                                       *)
(***************************************************************************)
Slots == {-1, 5, 200, 256}
ChunkCounts == {39, 40, 146, 147}
Ops == {"readPreset", "readPresetName"}

NoEvent == [kind |-> "none", frame |-> <<>>, timer |-> "none"]
NoPure == [fn |-> "none", arg |-> <<>>, out |-> <<>>]
NoScan == [pc |-> "idle", presets |-> <<>>, timeouts |-> {}, unanswered |-> -1,
           answered |-> {}]

Init ==
    /\ port \in [isOpen : BOOLEAN, input : {FALSE}, listening : {FALSE},
                 sysexCallback : {"none"}]
    /\ op = "none" /\ slot = 0 /\ chunkCount = 0
    /\ settled = "idle" /\ result = <<>> /\ error = "none"
    /\ presetName = <<>> /\ category = 0 /\ dataChunks = <<>> /\ currentChunk = 0
    /\ waitingForName = FALSE /\ waitingForDump = FALSE /\ waitingForData = FALSE
    /\ timers = {} /\ nextChunkTimers = 0
    /\ sent = <<>> /\ lastEvent = NoEvent /\ responses = 0
    /\ pure = NoPure
    /\ scan = NoScan

ArgumentsRejected_SlotUpTo256(o, s, c) ==
    \/ s < 0 \/ s > 256
    \/ (o = "readPreset" /\ (c < MIN_CHUNK_COUNT \/ c > MAX_CHUNK_COUNT))

\* the range checks at the head of readPreset and readPresetName
ArgumentsRejected(o, s, c) ==
    \/ s < 0 \/ s > 255
    \/ (o = "readPreset" /\ (c < MIN_CHUNK_COUNT \/ c > MAX_CHUNK_COUNT))

\* the synchronous part of readPreset(port, s, c) and readPresetName(port, s)
Start(o, s, c, found, transportOk) ==
    /\ op' = o /\ slot' = s /\ chunkCount' = c
    /\ lastEvent' = [kind |-> "call", frame |-> <<>>, timer |-> "none"]
    /\ UNCHANGED <<responses, pure, nextChunkTimers, dataChunks, currentChunk,
                   presetName, category, result, waitingForDump, waitingForData,
                   scan>>
    /\ IF ~port.isOpen \/ ArgumentsRejected(o, s, c)
       THEN /\ settled' = "null"
            /\ UNCHANGED <<port, error, waitingForName, timers, sent>>
       ELSE LET nameRequest == buildPresetNameRequest(bankOf(s), presetNumberOf(s), 0)
                enabled == enableSysExInput(port, o, found)
                ok == sendSysEx(enabled, nameRequest, transportOk)
            IN  /\ waitingForName' = (o = "readPreset")
                /\ sent' = Append(sent, [msg |-> nameRequest, ok |-> ok])
                /\ IF ok
                   THEN /\ settled' = "pending"
                        /\ timers' = {"timeout"}
                        /\ port' = enabled
                        /\ UNCHANGED error
                   ELSE /\ settled' = "rejected"
                        /\ error' = "Failed to send preset name request"
                        /\ timers' = {}
                        /\ port' = IF o = "readPresetName"
                                   THEN disableSysExInput(enabled) ELSE enabled

Call ==
    /\ settled = "idle"
    /\ \E o \in Ops, s \in Slots, c \in ChunkCounts, found \in BOOLEAN,
          transportOk \in BOOLEAN :
          /\ (o = "readPresetName" => c = MAX_CHUNK_COUNT)
          /\ Start(o, s, c, found, transportOk)

\* 42 bytes on the wire, Arturia envelope, a data response type
WellFormedChunkResponse(f) ==
    /\ Len(f) = 42
    /\ f[1] = SYSEX_START /\ f[Len(f)] = SYSEX_END
    /\ SubSeq(f, 2, 4) = ARTURIA_MANUFACTURER_ID /\ f[5] = MICROFREAK_DEVICE_ID
    /\ f[13] \in RESPONSE_DATA

\* the 'message' listener of enableSysExInput, for one inbound frame
OnMessage(message) ==
    IF message[1] = SYSEX_START /\ port.sysexCallback # "none"
    THEN IF port.sysexCallback = "readPreset"
         THEN readPresetListener(message)
         ELSE readPresetNameListener(message)
    ELSE IgnoreMessage

CountsAsResponse(f) ==
    /\ f[1] = SYSEX_START /\ port.sysexCallback = "readPreset"
    /\ waitingForData /\ settled = "pending"
    /\ WellFormedChunkResponse(f)

Deliver ==
    /\ port.input /\ port.listening
    /\ \E f \in InboundFrames :
          /\ CountsAsResponse(f) => responses < chunkCount
          /\ OnMessage(f)
          /\ responses' = IF CountsAsResponse(f) THEN responses + 1 ELSE responses
          /\ lastEvent' = [kind |-> "frame", frame |-> f, timer |-> "none"]
          /\ UNCHANGED <<op, slot, chunkCount, sent, pure, scan>>

PendingTimers == timers \cup (IF nextChunkTimers > 0 THEN {"nextChunk"} ELSE {})

\* the event loop runs the callback of one pending timer
TimerFire ==
    \E t \in PendingTimers, transportOk \in BOOLEAN :
       /\ lastEvent' = [kind |-> "timer", frame |-> <<>>, timer |-> t]
       /\ UNCHANGED <<op, slot, chunkCount, responses, pure, presetName, category,
                      dataChunks, currentChunk, waitingForName, scan>>
       /\ CASE t = "timeout" ->
                 /\ transportOk
                 /\ IF op = "readPreset" THEN readPresetTimeout ELSE readPresetNameTimeout
                 /\ timers' = timers \ {"timeout"}
                 /\ UNCHANGED <<sent, waitingForDump, waitingForData, nextChunkTimers>>
            [] t = "dump" -> dumpRequestTimer(transportOk)
            [] t = "chunkPhase" -> chunkPhaseTimer(transportOk)
            [] t = "nextChunk" -> nextChunkTimer(transportOk)

Next == Call \/ Deliver \/ TimerFire

Spec == Init /\ [][Next]_vars

\* every pending timer callback eventually runs
FairSpec == Spec /\ WF_vars(TimerFire)

(***************************************************************************)
(* scanPresets: readPresetName for one slot after the other, 20 ms apart.  *)
(* The input port of the device exists; the device answers a name request  *)
(* while its read is pending, or not at all.                               *)
(***************************************************************************)
\* the scan covers slots 0..ScanSlots-1 (totalSlots in the source is 256)
ScanSlots == 5

MinOf(S) == CHOOSE x \in S : \A y \in S : x <= y

\* the synchronous part of readPresetName(port, s) when the scan calls it:
\* the timeouts of earlier slots are still pending
ScanReadName(base, s, transportOk) ==
    LET nameRequest == buildPresetNameRequest(bankOf(s), presetNumberOf(s), 0)
        enabled == enableSysExInput(port, "readPresetName", TRUE)
        ok == sendSysEx(enabled, nameRequest, transportOk)
    IN  /\ slot' = s
        /\ IF ~port.isOpen \/ ArgumentsRejected("readPresetName", s, MAX_CHUNK_COUNT)
           THEN /\ settled' = "null"
                /\ scan' = [base EXCEPT !.pc = "reading"]
                /\ UNCHANGED <<port, error, sent>>
           ELSE /\ sent' = Append(sent, [msg |-> nameRequest, ok |-> ok])
                /\ IF ok
                   THEN /\ settled' = "pending"
                        /\ port' = enabled
                        /\ scan' = [base EXCEPT !.pc = "reading",
                                                !.timeouts = @ \cup {s}]
                        /\ UNCHANGED error
                   ELSE /\ settled' = "rejected"
                        /\ error' = "Failed to send preset name request"
                        /\ port' = disableSysExInput(enabled)
                        /\ scan' = [base EXCEPT !.pc = "reading"]

ScanIdleVars ==
    <<chunkCount, presetName, category, dataChunks, currentChunk, waitingForName,
      waitingForDump, waitingForData, timers, nextChunkTimers, responses, pure>>

\* scanPresets(port) up to its first await
ScanCall ==
    /\ scan.pc = "idle" /\ settled = "idle"
    /\ \E u \in 0..(ScanSlots - 1), transportOk \in BOOLEAN :
          ScanReadName([scan EXCEPT !.unanswered = u], 0, transportOk)
    /\ op' = "scanPresets"
    /\ lastEvent' = [kind |-> "call", frame |-> <<>>, timer |-> "none"]
    /\ UNCHANGED <<result, ScanIdleVars>>

\* the device answers the name request of the slot being read
ScanDeliver ==
    /\ scan.pc = "reading" /\ settled = "pending"
    /\ slot # scan.unanswered /\ slot \notin scan.answered
    /\ scan' = [scan EXCEPT !.answered = @ \cup {slot}]
    /\ IF port.input /\ port.listening
       THEN OnMessage(GoodNameFrame)
       ELSE IgnoreMessage
    /\ lastEvent' = [kind |-> "frame", frame |-> GoodNameFrame, timer |-> "none"]
    /\ UNCHANGED <<op, slot, chunkCount, sent, pure, responses>>

\* the loop body after 'await readPresetName': push the metadata, or catch
ScanSettle ==
    /\ scan.pc = "reading" /\ settled \in {"null", "resolved", "rejected"}
    /\ scan' = [scan EXCEPT !.pc = "waiting",
                            !.presets = IF settled = "resolved"
                                        THEN Append(@, result) ELSE @]
    /\ lastEvent' = [kind |-> "await", frame |-> <<>>, timer |-> "none"]
    /\ UNCHANGED <<port, op, slot, settled, result, error, sent, ScanIdleVars>>

\* 'await wait(20)' is over: the next iteration, or the return
ScanWaitDone ==
    /\ scan.pc = "waiting"
    /\ lastEvent' = [kind |-> "timer", frame |-> <<>>, timer |-> "wait"]
    /\ UNCHANGED <<op, result, ScanIdleVars>>
    /\ IF slot + 1 < ScanSlots
       THEN \E transportOk \in BOOLEAN : ScanReadName(scan, slot + 1, transportOk)
       ELSE /\ scan' = [scan EXCEPT !.pc = "done"]
            /\ UNCHANGED <<port, slot, settled, error, sent>>

\* the oldest pending 2000 ms timer of a readPresetName call fires; it
\* rejects the promise of its own call
ScanTimeout ==
    /\ scan.timeouts # {}
    /\ LET k == MinOf(scan.timeouts)
       IN  /\ scan' = [scan EXCEPT !.timeouts = @ \ {k}]
           /\ IF k = slot
              THEN readPresetNameTimeout
              ELSE /\ port' = disableSysExInput(port)
                   /\ UNCHANGED <<settled, result, error>>
    /\ lastEvent' = [kind |-> "timer", frame |-> <<>>, timer |-> "timeout"]
    /\ UNCHANGED <<op, slot, sent, ScanIdleVars>>

ScanNext == ScanCall \/ ScanDeliver \/ ScanSettle \/ ScanWaitDone \/ ScanTimeout

ScanSpec == Init /\ [][ScanNext]_vars

(***************************************************************************)
(* Roland SysEx utilities (SE-02), the tail of src/drivers/microfreak/     *)
(* index.ts                                                                *)
(***************************************************************************)
\* a % n of JavaScript: the sign of the result is the sign of a
JsRem(a, n) == IF a >= 0 THEN a % n ELSE -((-a) % n)

\* a & b of JavaScript for a >= 0 and b >= 0
RECURSIVE BitAnd(_, _)
BitAnd(a, b) ==
    IF a = 0 \/ b = 0 THEN 0
    ELSE (a % 2) * (b % 2) + 2 * BitAnd(a \div 2, b \div 2)

\* data.reduce((acc, byte) => acc + byte, 0)
RECURSIVE SumBytes(_)
SumBytes(data) == IF data = <<>> THEN 0 ELSE Head(data) + SumBytes(Tail(data))

\* mutant: the result is not masked to 7 bits
calculateRolandChecksum_NoMask(data) == 128 - JsRem(SumBytes(data), 128)

calculateRolandChecksum(data) == BitAnd(128 - JsRem(SumBytes(data), 128), 127)

\* message[checksumIndex] === checksum of message.slice(7, checksumIndex)
verifyRolandChecksum(message, checksumIndex) ==
    LET dataStart == 7
        data == Slice(message, dataStart, checksumIndex)
        expectedChecksum == calculateRolandChecksum(data)
    IN  /\ checksumIndex >= 0 /\ checksumIndex < Len(message)
        /\ message[checksumIndex + 1] = expectedChecksum

\* F0 41 dev 00 00 00 44 11 address(4) size checksum F7
buildSE02Request(deviceId, address, size) ==
    LET checksumData == address \o <<size>>
        checksum == calculateRolandChecksum(checksumData)
    IN  <<240, 65, deviceId, 0, 0, 0, 68, 17>> \o address \o <<size>>
          \o <<checksum>> \o <<247>>

\* mutant: a frame whose checksum does not match is rejected
parseSE02Response_RejectsBadChecksum(message) ==
    IF Len(message) < 12 THEN None
    ELSE IF message[1] # 240 THEN None
    ELSE IF message[2] # 65 THEN None
    ELSE IF message[3] < 16 \/ message[3] > 31 THEN None
    ELSE IF message[4] # 0 \/ message[5] # 0 \/ message[6] # 0 \/ message[7] # 68
         THEN None
    ELSE IF message[Len(message)] # 247 THEN None
    ELSE LET address == Slice(message, 8, 12)
             checksumIndex == Len(message) - 2
             checksum == message[checksumIndex + 1]
             data == Slice(message, 12, checksumIndex)
         IN  IF checksum # calculateRolandChecksum(address \o data) THEN None
             ELSE Some([data |-> data, deviceId |-> message[3],
                        address |-> address, checksum |-> checksum,
                        command |-> message[8], valid |-> TRUE])

\* null, or [deviceId, command, address, data, checksum, valid]
parseSE02Response(message) ==
    IF Len(message) < 12 THEN None
    ELSE IF message[1] # 240 THEN None
    ELSE IF message[2] # 65 THEN None
    ELSE IF message[3] < 16 \/ message[3] > 31 THEN None
    ELSE IF message[4] # 0 \/ message[5] # 0 \/ message[6] # 0 \/ message[7] # 68
         THEN None
    ELSE IF message[Len(message)] # 247 THEN None
    ELSE LET address == Slice(message, 8, 12)
             checksumIndex == Len(message) - 2
             checksum == message[checksumIndex + 1]
             data == Slice(message, 12, checksumIndex)
             valid == checksum = calculateRolandChecksum(address \o data)
         IN  Some([data |-> data, deviceId |-> message[3],
                   address |-> address, checksum |-> checksum,
                   command |-> message[8], valid |-> valid])

(***************************************************************************)
(* The sequence codec of src/drivers/microfreak/preset.ts. A SequenceStep  *)
(* is [gate, note, modA, modC, modD]; an optional field is None or Some(v) *)
(* with v an integer (Math.round of an integer is the integer).            *)
(***************************************************************************)
SEQUENCE_START_CHUNK == 30
MAX_STEPS == 64

\* Math.max(0, Math.min(127, v))
Clamp7(v) == IF v < 0 THEN 0 ELSE IF v > 127 THEN 127 ELSE v

\* mutant: 96 is not a note
decodeNote_Below96(laneB) == IF laneB >= 36 /\ laneB < 96 THEN Some(laneB) ELSE None

\* lane B is the main note when it lies in 36..96
decodeNote(laneB) == IF laneB >= 36 /\ laneB <= 96 THEN Some(laneB) ELSE None

\* mutant: only 127 marks an unused lane
decodeMod_Only127(lane) == IF lane # 127 THEN Some(lane) ELSE None

\* a modulation lane is stored unless it is 127 or 1
decodeMod(lane) == IF lane # 127 /\ lane # 1 THEN Some(lane) ELSE None

\* the step decodeSequence builds from one chunk
decodeStep(chunk) ==
    [gate |-> chunk[10] = 0,
     note |-> decodeNote(chunk[11]),
     modA |-> decodeMod(chunk[2]),
     modC |-> decodeMod(chunk[20]),
     modD |-> decodeMod(chunk[29])]

\* the loop of decodeSequence from step i on
RECURSIVE decodeSteps(_, _)
decodeSteps(chunks, i) ==
    IF i >= MAX_STEPS \/ SEQUENCE_START_CHUNK + i >= Len(chunks) THEN <<>>
    ELSE LET chunk == chunks[SEQUENCE_START_CHUNK + i + 1]
             step == decodeStep(chunk)
             hasAnyData == \/ (step.note # None /\ step.note[1] # 0)
                           \/ step.modA # None \/ step.modC # None
                           \/ step.modD # None \/ step.gate
             isEmpty == \A b \in 1..Len(chunk) : chunk[b] \in {0, 127, 100, 123}
         IN  IF ~hasAnyData /\ isEmpty /\ i > 0 THEN <<>>
             ELSE <<step>> \o decodeSteps(chunks, i + 1)

decodeSequence(chunks) ==
    LET steps == decodeSteps(chunks, 0)
    IN  [steps |-> steps, length |-> Len(steps), swing |-> 0]

\* new Array(32).fill(127)
FillChunk == [b \in 1..CHUNK_SIZE |-> 127]

\* byte 1, 19 or 28 of a step's chunk for the modulation lanes A and C
encodeLane(step, mod) ==
    IF mod # None THEN Clamp7(mod[1])
    ELSE IF step.gate THEN 127 ELSE FillChunk[1]

\* mutant: lane D gets its default whether or not the step has a gate
encodeLaneD_AlwaysDefault(step) ==
    IF step.modD # None THEN Clamp7(step.modD[1]) ELSE 1

\* byte 28: lane D
encodeLaneD(step) ==
    IF step.modD # None THEN Clamp7(step.modD[1])
    ELSE IF step.gate THEN 1 ELSE FillChunk[29]

\* the chunk encodeSequence builds for one step
encodeStep(step) ==
    [b \in 1..CHUNK_SIZE |->
        CASE b = 10 -> IF step.gate THEN 0 ELSE 127
          [] b = 1 -> IF step.gate THEN 0 ELSE FillChunk[1]
          [] b = 25 -> IF step.gate THEN 112 ELSE FillChunk[25]
          [] b = 11 -> IF step.note # None THEN Clamp7(step.note[1]) ELSE 1
          [] b = 2 -> encodeLane(step, step.modA)
          [] b = 20 -> encodeLane(step, step.modC)
          [] b = 29 -> encodeLaneD(step)
          [] OTHER -> FillChunk[b]]

\* mutant: one chunk for every step of the list, however long
encodeSequence_EveryStep(steps, length, swing) ==
    [i \in 1..30 |-> FillChunk]
      \o [i \in 1..Len(steps) |-> encodeStep(steps[i])]
      \o [i \in 1..(IF Len(steps) < 76 THEN 76 - Len(steps) ELSE 0) |-> FillChunk]

\* 30 filler chunks, 64 step chunks, filler up to 106 chunks
encodeSequence(steps, length, swing) ==
    LET totalSteps == IF Len(steps) < 64 THEN Len(steps) ELSE 64
    IN  [i \in 1..30 |-> FillChunk]
          \o [i \in 1..64 |-> IF i - 1 < totalSteps THEN encodeStep(steps[i])
                              ELSE FillChunk]
          \o [i \in 1..(106 - 94) |-> FillChunk]

(***************************************************************************)
(* Calls of the pure parsers on bounded frames                             *)
(***************************************************************************)
MaxFrameLen == 46

FrameVariants == {"ok", "badStart", "badEnd", "badVendor", "badDevice"}

Variant(f, v) ==
    CASE v = "badStart" /\ Len(f) >= 1 -> ReplaceAt(f, 1, 127)
      [] v = "badEnd" /\ Len(f) >= 1 -> ReplaceAt(f, Len(f), 5)
      [] v = "badVendor" /\ Len(f) >= 3 -> ReplaceAt(f, 3, 33)
      [] v = "badDevice" /\ Len(f) >= 5 -> ReplaceAt(f, 5, 8)
      [] OTHER -> f

ParserFrames ==
    { Variant(MakeFrame(len, disc, fill), v) :
        len \in 0..MaxFrameLen, disc \in {22, 23, 82, 64}, fill \in {0, 5},
        v \in FrameVariants }

PureIdleVars ==
    <<port, op, slot, chunkCount, settled, result, error, presetName,
      category, dataChunks, currentChunk, waitingForName,
      waitingForDump, waitingForData, timers, nextChunkTimers, sent,
      lastEvent, responses, scan>>

\* frames at and below the smallest envelopes
ShortFrames ==
    { <<>>, <<240>>, <<240, 247>>, <<240, 0, 247>>, <<240, 65, 247>>,
      <<240, 65, 16, 247>>, <<240, 0, 32, 247>>, <<240, 0, 32, 107, 247>>,
      <<240, 0, 32, 107, 7, 247>>, <<240, 0, 32, 107, 7, 1, 247>> }

EnvelopeFrames == ParserFrames \cup ShortFrames

\* one call of a pure function: its name, its argument(s), what it returned
PureCall(fn, arg, out) ==
    /\ pure' = [fn |-> fn, arg |-> arg, out |-> out]
    /\ UNCHANGED PureIdleVars

ParseDataCall ==
    /\ pure = NoPure
    /\ \E f \in ParserFrames :
          PureCall("parsePresetDataResponse", f, parsePresetDataResponse(f))

\* names and categories a device may report for a slot:
\* "INIT", "Factory", "", "  ", "Ab", "Init"; the 11 categories and one beyond
ScannedNames ==
    { INIT_NAME, FACTORY_PREFIX, <<>>, <<32, 32>>, <<65, 98>>, <<73, 110, 105, 116>> }
ScannedCategories == 0..11

\* findEmptySlots on the scan result for one answered slot
FindEmptyCall ==
    /\ pure = NoPure
    /\ \E name \in ScannedNames, cat \in ScannedCategories, s \in {3, 130} :
          LET parsed == parsePresetNameResponse(NameFrame(name, cat))
              allPresets == <<PresetMetadata(s, parsed[1])>>
          IN  PureCall("findEmptySlots", allPresets, findEmptySlots(allPresets))

\* arguments of the request builders, in and out of their documented ranges
BankArgs == {-1, 0, 1, 2}
PresetArgs == {-1, 0, 127, 128}
ChunkArgs == {-1, 0, 127, 128, 145, 146}
DeviceIds == {16, 17, 31}
AddressArgs ==
    { <<5, 0, 0, 0>>, <<5, 0, 1, 0>>, <<5, 0, 1, 64>>, <<0, 0, 0, 0>>,
      <<127, 127, 127, 127>>, <<5, 0, 0, 128>>, <<5, -1, 0, 0>> }
SizeArgs == {0, 10, 58, 64, 127, 128, -1}

BuildNameRequestCall ==
    /\ pure = NoPure
    /\ \E bank \in BankArgs, preset \in PresetArgs :
          PureCall("buildPresetNameRequest", <<bank, preset>>,
                   buildPresetNameRequest(bank, preset, 0))

BuildDumpRequestCall ==
    /\ pure = NoPure
    /\ \E bank \in BankArgs, preset \in PresetArgs :
          PureCall("buildPresetDumpRequest", <<bank, preset>>,
                   buildPresetDumpRequest(bank, preset))

BuildDataRequestCall ==
    /\ pure = NoPure
    /\ \E chunkNumber \in ChunkArgs :
          PureCall("buildPresetDataRequest", <<chunkNumber>>,
                   buildPresetDataRequest(chunkNumber))

BuildSE02RequestCall ==
    /\ pure = NoPure
    /\ \E deviceId \in DeviceIds, address \in AddressArgs, size \in SizeArgs :
          PureCall("buildSE02Request", <<deviceId, address, size>>,
                   buildSE02Request(deviceId, address, size))

SevenBit(bytes) == \A i \in 1..Len(bytes) : bytes[i] \in 0..127

\* verifyRolandChecksum on a request buildSE02Request produced
VerifyRequestCall ==
    /\ pure = NoPure
    /\ \E deviceId \in DeviceIds, address \in AddressArgs, size \in SizeArgs :
          /\ SevenBit(address \o <<size>>)
          /\ LET request == buildSE02Request(deviceId, address, size)
             IN  PureCall("verifyRolandChecksum", <<request, Len(request) - 2>>,
                          verifyRolandChecksum(request, Len(request) - 2))

\* byte arrays of up to MaxDataLen bytes, and the array of the checksum test
MaxDataLen == 3
ChecksumBytes == {0, 1, 5, 59, 64, 127, 128, 255}
ChecksumTestData == <<5, 0, 0, 0, 64>>
ByteArrays ==
    UNION { [1..n -> ChecksumBytes] : n \in 0..MaxDataLen } \cup {ChecksumTestData}

ChecksumCall ==
    /\ pure = NoPure
    /\ \E data \in ByteArrays :
          PureCall("calculateRolandChecksum", data, calculateRolandChecksum(data))

\* an SE-02 frame: header, command, address, data, checksum byte, end
SE02Frame(deviceId, command, address, data, checksum) ==
    <<240, 65, deviceId, 0, 0, 0, 68, command>> \o address \o data
      \o <<checksum, 247>>

MaxSE02Data == 2
SE02DataBytes == {0, 1, 127}
SE02Variants == {"ok", "badStart", "badEnd", "badVendor", "badModel", "short"}

SE02Variant(f, v) ==
    CASE v = "badStart" -> ReplaceAt(f, 1, 127)
      [] v = "badEnd" -> ReplaceAt(f, Len(f), 5)
      [] v = "badVendor" -> ReplaceAt(f, 2, 66)
      [] v = "badModel" -> ReplaceAt(f, 7, 69)
      [] v = "short" -> SubSeq(f, 1, 10) \o <<247>>
      [] OTHER -> f

\* DT1 frames with a right or a wrong checksum byte, whole or damaged, and
\* the 12 and 13 byte frames that carry the header only
SE02Frames ==
    { SE02Variant(SE02Frame(deviceId, 18, address, data,
                            (calculateRolandChecksum(address \o data) + delta) % 128), v) :
        deviceId \in {15, 16, 31, 32},
        address \in {<<5, 0, 0, 0>>, <<5, 0, 1, 64>>},
        data \in UNION { [1..n -> SE02DataBytes] : n \in 0..MaxSE02Data },
        delta \in {0, 1}, v \in SE02Variants }
    \cup { <<240, 65, 16, 0, 0, 0, 68, 18>> \o tail \o <<247>> :
             tail \in {<<5, 0, 0>>, <<5, 0, 123>>, <<5, 0, 1, 64>>, <<0, 0, 0, 0>>} }

ParseSE02Call ==
    /\ pure = NoPure
    /\ \E f \in SE02Frames \cup ShortFrames :
          PureCall("parseSE02Response", f, parseSE02Response(f))

ParseSysExCall ==
    /\ pure = NoPure
    /\ \E f \in EnvelopeFrames :
          PureCall("parseSysExMessage", f, parseSysExMessage(f))

ParseArturiaCall ==
    /\ pure = NoPure
    /\ \E f \in EnvelopeFrames :
          PureCall("parseArturiaSysEx", f, parseArturiaSysEx(f))

ParseNameCall ==
    /\ pure = NoPure
    /\ \E f \in EnvelopeFrames :
          PureCall("parsePresetNameResponse", f, parsePresetNameResponse(f))

\* steps with and without a gate, with notes inside and outside 36..96 and
\* lanes absent, at a sentinel value, or at another value
NoteValues == {None} \cup { Some(v) : v \in {0, 1, 20, 36, 60, 96, 97, 126, 127} }
ModValues == {None} \cup { Some(v) : v \in {0, 1, 64, 127} }
Steps ==
    [gate : BOOLEAN, note : NoteValues, modA : ModValues, modC : ModValues,
     modD : ModValues]

EncodeSequenceCall ==
    /\ pure = NoPure
    /\ \E step \in Steps :
          PureCall("encodeSequence", <<step>>, encodeSequence(<<step>>, 1, 0))

\* lists of 0..MaxStepCount steps; step i carries the note first + i
MaxStepCount == 66

StepList(n, first, gated) ==
    [i \in 1..n |->
        [gate |-> gated, note |-> Some(first + i), modA |-> None, modC |-> None,
         modD |-> IF i % 2 = 0 THEN Some(i) ELSE None]]

EncodeStepsCall ==
    /\ pure = NoPure
    /\ \E n \in 0..MaxStepCount, first \in {0, 35}, gated \in BOOLEAN :
          LET steps == StepList(n, first, gated)
          IN  PureCall("encodeSequence(steps)", steps, encodeSequence(steps, n, 0))

\* decodeSequence on the chunks encodeSequence returned for one step
DecodeEncodedCall ==
    /\ pure = NoPure
    /\ \E step \in Steps :
          PureCall("decodeSequence", <<step>>,
                   decodeSequence(encodeSequence(<<step>>, 1, 0)).steps)

\* String.prototype.trim on a sequence of character codes
RECURSIVE trimStart(_)
trimStart(s) ==
    IF s # <<>> /\ Head(s) \in WHITESPACE THEN trimStart(Tail(s)) ELSE s

RECURSIVE trimEnd(_)
trimEnd(s) ==
    IF s # <<>> /\ s[Len(s)] \in WHITESPACE
    THEN trimEnd(SubSeq(s, 1, Len(s) - 1)) ELSE s

trim(s) == trimEnd(trimStart(s))

IsNotPadding(b) == b # 0

\* bytes.filter(b => b !== 0).map(String.fromCharCode).join('').trim()
parsePresetName(bytes) == trim(SelectSeq(bytes, IsNotPadding))

NAME_FIELD_SIZE == 16

\* mutant: the name is cut one character short of the field
encodePresetName_Slice15(name) ==
    LET truncated == Slice(name, 0, NAME_FIELD_SIZE - 1)
    IN  [i \in 1..NAME_FIELD_SIZE |->
            IF i <= Len(truncated) THEN BitAnd(truncated[i], 127) ELSE 0]

\* 16 zero bytes overwritten by the low 7 bits of the first 16 characters
encodePresetName(name) ==
    LET truncated == Slice(name, 0, NAME_FIELD_SIZE)
    IN  [i \in 1..NAME_FIELD_SIZE |->
            IF i <= Len(truncated) THEN BitAnd(truncated[i], 127) ELSE 0]

\* names over NUL, tab, space, 'A', 'n', DEL and U+00C9 of up to MaxNameLen
\* characters, "Inbound", and names of 15, 16 and 17 characters
MaxNameLen == 4

NameChars == {0, 9, 32, 65, 110, 127, 201}

RECURSIVE NamesOfLen(_)
NamesOfLen(n) ==
    IF n = 0 THEN {<<>>}
    ELSE { <<c>> \o s : c \in NameChars, s \in NamesOfLen(n - 1) }

INBOUND == <<73, 110, 98, 111, 117, 110, 100>>

LongName(n, c) == [i \in 1..n |-> IF i = n THEN c ELSE 96 + i]

PresetNames ==
    UNION { NamesOfLen(n) : n \in 0..MaxNameLen }
      \cup {INBOUND}
      \cup { LongName(n, c) : n \in 15..17, c \in {32, 90} }

\* encodePresetName on a name, then parsePresetName on the bytes
EncodeNameCall ==
    /\ pure = NoPure
    /\ \E name \in PresetNames :
          LET bytes == encodePresetName(name)
          IN  PureCall("encodePresetName", name, <<bytes, parsePresetName(bytes)>>)

\* the bytes HardwareMidiPort.sendProgramChange passes to send
sendProgramChange(channel, program) ==
    <<192 + BitAnd(channel, 15), BitAnd(program, 127)>>

\* MicroFreakDriver.loadPreset: the message sent, None without a port
loadPreset(connected, midiChannel, slotNumber) ==
    IF ~connected THEN None
    ELSE Some(sendProgramChange(midiChannel, BitAnd(slotNumber, 127)))

\* SE02Driver.loadPreset: the message sent, None without a port or for a
\* slot outside 1..128
SE02loadPreset(connected, midiChannel, slotNumber) ==
    IF ~connected THEN None
    ELSE IF slotNumber < 1 \/ slotNumber > 128 THEN None
    ELSE Some(sendProgramChange(midiChannel, slotNumber - 1))

\* slot numbers a load_preset request can carry (integers from 1)
MaxLoadSlot == 130

LoadPresetCall ==
    /\ pure = NoPure
    /\ \E connected \in BOOLEAN, midiChannel \in {0, 9},
          slotNumber \in 1..MaxLoadSlot, synth \in {"microfreak", "se02"} :
          PureCall("loadPreset",
                   [slot |-> slotNumber, midiChannel |-> midiChannel, synth |-> synth],
                   IF synth = "microfreak"
                   THEN loadPreset(connected, midiChannel, slotNumber)
                   ELSE SE02loadPreset(connected, midiChannel, slotNumber))

\* chunks of a dump: gate byte 0 or 127, each lane byte a sentinel or a value
StepChunkOf(gateByte, laneA, laneB, laneC, laneD) ==
    [b \in 1..CHUNK_SIZE |->
        CASE b = 10 -> gateByte
          [] b = 2 -> laneA
          [] b = 11 -> laneB
          [] b = 20 -> laneC
          [] b = 29 -> laneD
          [] OTHER -> FillChunk[b]]

LaneBytes == {0, 1, 20, 36, 64, 96, 97, 127}

StepChunks ==
    { StepChunkOf(gateByte, laneA, laneB, laneC, laneD) :
        gateByte \in {0, 1, 127}, laneA \in LaneBytes, laneB \in LaneBytes,
        laneC \in {1, 64, 127}, laneD \in {1, 5, 127} }

\* the 106 chunks of a sequence whose first step chunk is chunk
SequenceChunks(chunk) ==
    [i \in 1..106 |-> IF i = SEQUENCE_START_CHUNK + 1 THEN chunk ELSE FillChunk]

\* decodeSequence on a dump, then encodeSequence on the decoded steps
ReencodeCall ==
    /\ pure = NoPure
    /\ \E chunk \in StepChunks :
          LET decoded == decodeSequence(SequenceChunks(chunk))
              encoded == encodeSequence(decoded.steps, decoded.length, decoded.swing)
          IN  PureCall("encodeSequence(decodeSequence)", chunk,
                       <<decoded.steps, encoded>>)

\* a step chunk with the gate on and note 60, the step before the decoded one
GatedChunk == StepChunkOf(0, 127, 60, 127, 127)

\* the chunks of a dump with chunk as step pos of the sequence
ChunksAt(chunk, pos) ==
    [i \in 1..106 |->
        IF i = SEQUENCE_START_CHUNK + pos + 1 THEN chunk
        ELSE IF i > SEQUENCE_START_CHUNK /\ i <= SEQUENCE_START_CHUNK + pos
             THEN GatedChunk
             ELSE FillChunk]

\* decodeSequence on a dump whose step pos is chunk
DecodeChunkCall ==
    /\ pure = NoPure
    /\ \E chunk \in StepChunks, pos \in {0, 1} :
          PureCall("decodeSequence(chunks)", <<pos, chunk>>,
                   decodeSequence(ChunksAt(chunk, pos)).steps)

NextPure ==
    \/ ParseDataCall
    \/ FindEmptyCall
    \/ BuildNameRequestCall
    \/ BuildDumpRequestCall
    \/ BuildDataRequestCall
    \/ BuildSE02RequestCall
    \/ VerifyRequestCall
    \/ ChecksumCall
    \/ ParseSE02Call
    \/ ParseSysExCall
    \/ ParseArturiaCall
    \/ ParseNameCall
    \/ EncodeSequenceCall
    \/ DecodeEncodedCall
    \/ ReencodeCall
    \/ DecodeChunkCall
    \/ EncodeStepsCall
    \/ EncodeNameCall
    \/ LoadPresetCall

PureSpec == Init /\ [][NextPure]_vars

(***************************************************************************)
(* Vocabulary of the properties                                            *)
(***************************************************************************)
Terminal == settled \in {"resolved", "rejected"}

\* the phase of the transfer as the caller and the wire see it
Phase ==
    CASE settled \in {"idle", "null"} -> <<"Idle", 0>>
      [] settled = "resolved" -> <<"Complete", 0>>
      [] settled = "rejected" -> <<"Failed", 0>>
      [] op = "readPresetName" -> <<"AwaitingName", 0>>
      [] waitingForName -> <<"AwaitingName", 0>>
      [] waitingForDump -> <<"AwaitingDumpAck", 0>>
      [] OTHER -> <<"AwaitingChunk", currentChunk>>

\* the wire format, independently of the parsers
EnvelopeValid(f) ==
    /\ Len(f) >= 6
    /\ f[1] = SYSEX_START /\ f[Len(f)] = SYSEX_END
    /\ SubSeq(f, 2, 4) = ARTURIA_MANUFACTURER_ID /\ f[5] = MICROFREAK_DEVICE_ID

Discriminator(f) == IF Len(f) >= 14 THEN f[13] ELSE 0

Malformed(f) ==
    ~EnvelopeValid(f) \/ Discriminator(f) \notin (RESPONSE_DATA \cup {RESPONSE_NAME})

AwaitsName == (op = "readPreset" /\ waitingForName) \/ op = "readPresetName"
AwaitsData == op = "readPreset" /\ waitingForData

\* a valid response of a phase the transfer is not in
UnrelatedToPhase(f) ==
    /\ EnvelopeValid(f)
    /\ \/ Discriminator(f) = RESPONSE_NAME /\ ~AwaitsName
       \/ Discriminator(f) \in RESPONSE_DATA /\ ~AwaitsData

TransferState ==
    <<port, settled, result, error, presetName, category, dataChunks, currentChunk,
      waitingForName, waitingForDump, waitingForData, timers, nextChunkTimers, sent>>

RequestKind(msg) ==
    IF msg[9] = REQUEST_PRESET_DATA THEN "chunk"
    ELSE IF msg[12] = 1 THEN "dump" ELSE "name"

FrameEvent == lastEvent'.kind = "frame"
TimerEvent(t) == lastEvent'.kind = "timer" /\ lastEvent'.timer = t

TimeoutReasons ==
    {"Preset read timeout - MicroFreak not responding", "Preset name read timeout"}

(***************************************************************************)
(* C1: a 146-chunk readPreset that got its name and 146 well-formed chunk  *)
(* responses has resolved with 146 chunks; with 145 responses and the      *)
(* timeout fired it is rejected with the timeout reason; it never holds    *)
(* more chunks than responses received.                                    *)
(***************************************************************************)
C1_ChunkedTransferCompletes ==
    (op = "readPreset" /\ chunkCount = MAX_CHUNK_COUNT) =>
        /\ responses = MAX_CHUNK_COUNT =>
              (settled = "resolved" /\ Len(result.data) = MAX_CHUNK_COUNT)
        /\ (responses = MAX_CHUNK_COUNT - 1 /\ settled # "pending"
              /\ lastEvent.kind = "timer" /\ lastEvent.timer = "timeout") =>
              (settled = "rejected" /\ error \in TimeoutReasons)
        /\ Len(dataChunks) <= responses

(***************************************************************************)
(* C2: parsePresetDataResponse returns a chunk only for frames of exactly  *)
(* 42 bytes on the wire, every chunk it returns has 32 bytes, and a frame  *)
(* of any other length is rejected.                                        *)
(***************************************************************************)
C2_ChunkParserLength ==
    pure.fn = "parsePresetDataResponse" =>
        /\ pure.out # None => (Len(pure.arg) = 42 /\ Len(pure.out[1]) = CHUNK_SIZE)
        /\ Len(pure.arg) # 42 => pure.out = None

(***************************************************************************)
(* C3: at most one request is outstanding.                                 *)
(***************************************************************************)
\* a response to the request was taken by the transfer; no code path takes
\* an answer to the dump request
Answered(i) ==
    CASE RequestKind(sent[i].msg) = "name" ->
            IF op = "readPreset" THEN ~waitingForName ELSE settled = "resolved"
      [] RequestKind(sent[i].msg) = "dump" -> FALSE
      [] OTHER -> currentChunk > sent[i].msg[7]

\* the phase the request opened is still the transfer's phase
PhaseOpen(i) ==
    CASE RequestKind(sent[i].msg) = "name" ->
            IF op = "readPreset" THEN waitingForName ELSE settled = "pending"
      [] RequestKind(sent[i].msg) = "dump" -> waitingForDump
      [] OTHER -> currentChunk <= sent[i].msg[7]

\* C3 as stated: at most one request is sent and not yet answered
C3_OneUnanswered ==
    op = "readPreset" =>
        Cardinality({i \in 1..Len(sent) : sent[i].ok /\ ~Answered(i)}) <= 1

\* C3 amended: at most one sent request has its phase still open, the dump
\* phase being closed by the pacing timer and not by an answer
C3_OnePhaseOpen ==
    op = "readPreset" =>
        Cardinality({i \in 1..Len(sent) : sent[i].ok /\ PhaseOpen(i)}) <= 1

C3_Witness ==
    /\ op = "readPreset" /\ Len(sent) = 3
    /\ \A i \in 1..3 : sent[i].ok
    /\ RequestKind(sent[3].msg) = "chunk" /\ PhaseOpen(3)

(***************************************************************************)
(* C4: every started transfer eventually resolves or rejects (timers       *)
(* eventually fire).                                                       *)
(***************************************************************************)
C4_EveryTransferSettles == (settled = "pending") ~> Terminal

C4_Witness ==
    /\ settled = "rejected" /\ error \in TimeoutReasons
    /\ lastEvent.kind = "timer" /\ lastEvent.timer = "timeout"

(***************************************************************************)
(* C5: a send that returns false, for any request of the transfer, rejects *)
(* the transfer in that very step.                                         *)
(***************************************************************************)
C5_SendFailureFailsTransfer ==
    [][(/\ Len(sent') = Len(sent) + 1
        /\ ~sent'[Len(sent')].ok
        /\ settled \in {"idle", "pending"}) => settled' = "rejected"]_vars

(***************************************************************************)
(* C6: a malformed frame handed to a waiting transfer.                     *)
(***************************************************************************)
\* C6 as stated: the transfer fails with a parse error
C6_MalformedFrameFails ==
    [][(FrameEvent /\ settled = "pending" /\ Malformed(lastEvent'.frame))
          => settled' = "rejected"]_vars

\* C6 amended: the frame is ignored, the transfer stays as it is
C6_MalformedFrameIgnored ==
    [][(FrameEvent /\ Malformed(lastEvent'.frame)) => UNCHANGED TransferState]_vars

C6_Witness ==
    /\ settled = "pending" /\ lastEvent.kind = "frame" /\ Malformed(lastEvent.frame)
    /\ lastEvent.frame[1] = SYSEX_START
    /\ port.sysexCallback # "none"

(***************************************************************************)
(* C7: a valid frame of a phase the transfer is not in changes nothing:    *)
(* not the phase, the name, the category or the chunk list, and it causes  *)
(* no send and no failure.                                                 *)
(***************************************************************************)
C7_UnrelatedFrameIgnored ==
    [][(FrameEvent /\ UnrelatedToPhase(lastEvent'.frame))
          => UNCHANGED TransferState]_vars

C7_Witness ==
    /\ settled = "pending" /\ waitingForData
    /\ lastEvent.kind = "frame" /\ lastEvent.frame = GoodNameFrame

(***************************************************************************)
(* C8: the causes of a phase change.                                       *)
(***************************************************************************)
\* C8 as stated: after the start, a phase changes only by a parsed inbound
\* message of the awaited phase or by the timeout
C8_PhaseChangeByMessageOrTimeout ==
    [][(Phase' # Phase /\ Phase[1] # "Idle" /\ op = "readPreset") =>
          \/ TimerEvent("timeout")
          \/ /\ FrameEvent
             /\ \/ Phase[1] = "AwaitingName"
                      /\ parsePresetNameResponse(lastEvent'.frame) # None
                \/ Phase[1] = "AwaitingChunk"
                      /\ parsePresetDataResponse(lastEvent'.frame) # None]_vars

\* C8 amended: every phase change is one step, caused by the call, a parsed
\* name response, the second pacing timer, an accepted chunk or the timeout
C8_PhaseChangeCauses ==
    [][(Phase' # Phase /\ op' = "readPreset") =>
          \/ /\ lastEvent'.kind = "call" /\ Phase[1] = "Idle"
             /\ Phase'[1] \in {"AwaitingName", "Failed"}
          \/ /\ FrameEvent /\ Phase[1] = "AwaitingName"
             /\ parsePresetNameResponse(lastEvent'.frame) # None
             /\ Phase'[1] = "AwaitingDumpAck"
          \/ /\ TimerEvent("chunkPhase") /\ Phase[1] = "AwaitingDumpAck"
             /\ Phase' = <<"AwaitingChunk", 0>>
          \/ /\ FrameEvent /\ Phase[1] = "AwaitingChunk"
             /\ parsePresetDataResponse(lastEvent'.frame) # None
             /\ \/ Phase' = <<"AwaitingChunk", Phase[2] + 1>>
                \/ Phase' = <<"Complete", 0>> /\ Phase[2] + 1 = chunkCount
          \/ /\ TimerEvent("timeout") /\ ~Terminal
             /\ Phase'[1] = "Failed"]_vars

C8_Witness ==
    /\ settled = "pending" /\ Phase = <<"AwaitingChunk", 0>>
    /\ lastEvent.kind = "timer" /\ lastEvent.timer = "chunkPhase"

(***************************************************************************)
(* C9: once the transfer has resolved or rejected, nothing more is sent on *)
(* its behalf, also when timers scheduled earlier fire later.              *)
(***************************************************************************)
C9_NoSendAfterTerminal ==
    [][Terminal => (sent' = sent \/ ~sent'[Len(sent')].ok)]_vars

(***************************************************************************)
(* C10: the chunk list grows by exactly one entry per accepted chunk       *)
(* response, in arrival order, never shrinks, never skips an index, and    *)
(* has chunkCount entries when the transfer resolves.                      *)
(***************************************************************************)
C10_ChunkListGrows ==
    /\ [][/\ \/ dataChunks' = dataChunks
             \/ /\ FrameEvent
                /\ Len(dataChunks') = Len(dataChunks) + 1
                /\ SubSeq(dataChunks', 1, Len(dataChunks)) = dataChunks
          /\ (/\ FrameEvent /\ AwaitsData /\ settled = "pending"
              /\ port.sysexCallback = "readPreset"
              /\ parsePresetDataResponse(lastEvent'.frame) # None)
                => Len(dataChunks') = Len(dataChunks) + 1]_vars
    /\ [](Len(dataChunks) = currentChunk)
    /\ [](settled = "resolved" /\ op = "readPreset" => Len(result.data) = chunkCount)

(***************************************************************************)
(* C11: readPreset and readPresetName called with a slot outside 0..255,   *)
(* and readPreset called with a chunk count outside 40..146, return null   *)
(* with no message sent, no SysEx listener enabled and no timer started.   *)
(***************************************************************************)
OutOfRangeCall ==
    /\ op \in Ops
    /\ \/ slot \notin 0..255
       \/ (op = "readPreset" /\ chunkCount \notin 40..146)

C11_OutOfRangeRejectedBeforeIO ==
    OutOfRangeCall =>
        /\ settled = "null"
        /\ sent = <<>>
        /\ ~port.input /\ ~port.listening /\ port.sysexCallback = "none"
        /\ timers = {} /\ nextChunkTimers = 0

C11_Witness ==
    /\ port.isOpen /\ settled = "null" /\ lastEvent.kind = "call"
    /\ op = "readPreset" /\ slot = 256 /\ chunkCount = 146

(***************************************************************************)
(* C12: a scan in which every name request is sent, the device leaves the  *)
(* request of one slot unanswered and answers the request of every other   *)
(* slot, returns one metadata entry for each other slot, in slot order,    *)
(* and none for the unanswered slot.                                       *)
(***************************************************************************)
ScanReturned == scan.pc = "done"

OneSlotUnanswered ==
    /\ Len(sent) = ScanSlots
    /\ \A i \in 1..Len(sent) : sent[i].ok
    /\ scan.answered = (0..(ScanSlots - 1)) \ {scan.unanswered}

C12_ScanSkipsOnlyFailedSlot ==
    (ScanReturned /\ OneSlotUnanswered) =>
        /\ Len(scan.presets) = ScanSlots - 1
        /\ \A s \in scan.answered :
              Cardinality({i \in 1..Len(scan.presets) : scan.presets[i].slot = s}) = 1
        /\ \A i \in 1..Len(scan.presets) : scan.presets[i].slot # scan.unanswered

(***************************************************************************)
(* C13: a scanned preset is flagged isEmpty, and listed by findEmptySlots, *)
(* exactly when its name is a placeholder ("INIT", starts with "Factory",  *)
(* blank) or its category is the default value; a preset with a real name  *)
(* and one of the 11 named categories is not reported as empty.            *)
(***************************************************************************)
PlaceholderName(name) ==
    name = INIT_NAME \/ startsWith(name, FACTORY_PREFIX) \/ trimIsEmpty(name)

NamedCategories == { PRESET_CATEGORIES[i] : i \in 1..Len(PRESET_CATEGORIES) }

C13_EmptyIffPlaceholderOrDefault ==
    pure.fn = "findEmptySlots" =>
        LET p == pure.arg[1]
        IN  /\ p.isEmpty <=> (PlaceholderName(p.name) \/ p.category = 0)
            /\ (pure.out = <<p.slot>>) <=> p.isEmpty
            /\ (~PlaceholderName(p.name) /\ p.categoryName \in NamedCategories)
                  => (~p.isEmpty /\ pure.out = <<>>)

(***************************************************************************)
(* C14: each request builder (name query, dump initiation, chunk query,    *)
(* device-info query) called with a bank outside 0..1, a preset outside    *)
(* 0..127, a chunk index outside 0..145, or an address or size byte        *)
(* outside 0..127 returns an error and no byte sequence.                   *)
(***************************************************************************)
Builders ==
    {"buildPresetNameRequest", "buildPresetDumpRequest", "buildPresetDataRequest",
     "buildSE02Request"}

ArgumentOutOfRange ==
    CASE pure.fn \in {"buildPresetNameRequest", "buildPresetDumpRequest"} ->
            pure.arg[1] \notin 0..1 \/ pure.arg[2] \notin 0..127
      [] pure.fn = "buildPresetDataRequest" -> pure.arg[1] \notin 0..145
      [] pure.fn = "buildSE02Request" ->
            \/ \E i \in 1..Len(pure.arg[2]) : pure.arg[2][i] \notin 0..127
            \/ pure.arg[3] \notin 0..127
      [] OTHER -> FALSE

EmitsBytes == pure.out # <<>> /\ pure.out[1] = SYSEX_START

C14_BuildersRejectOutOfRange ==
    (pure.fn \in Builders /\ ArgumentOutOfRange) => ~EmitsBytes

(***************************************************************************)
(* C15: for every request buildSE02Request(deviceId, address, size)        *)
(* produces, verifyRolandChecksum(request, request.length - 2) is true.    *)
(***************************************************************************)
C15_BuiltRequestVerifies ==
    pure.fn = "verifyRolandChecksum" => pure.out = TRUE

(***************************************************************************)
(* C16: calculateRolandChecksum(data) is (128 - (sum(data) mod 128)) mod   *)
(* 128 for every array of bytes: it lies in 0..127, sum(data) plus the     *)
(* checksum is 0 modulo 128, it is 0 for the empty array and 0x3B for      *)
(* [0x05, 0x00, 0x00, 0x00, 0x40].                                         *)
(***************************************************************************)
C16_ChecksumFormula ==
    pure.fn = "calculateRolandChecksum" =>
        LET sum == SumBytes(pure.arg)
        IN  /\ pure.out = (128 - (sum % 128)) % 128
            /\ pure.out \in 0..127
            /\ (sum + pure.out) % 128 = 0
            /\ pure.arg = <<>> => pure.out = 0
            /\ pure.arg = <<5, 0, 0, 0, 64>> => pure.out = 59

C16_Witness ==
    /\ pure.fn = "calculateRolandChecksum"
    /\ pure.arg = <<5, 0, 0, 0, 64>> /\ pure.out = 59

(***************************************************************************)
(* C17: parseSE02Response does not reject a frame for its checksum: for    *)
(* every frame with a valid SE-02 envelope it returns a record, and the    *)
(* record's valid field is true exactly when the checksum byte equals the  *)
(* checksum over address ++ data.                                          *)
(***************************************************************************)
\* the SE-02 wire envelope, independently of the parser
SE02EnvelopeValid(f) ==
    /\ Len(f) >= 12
    /\ f[1] = 240 /\ f[Len(f)] = 247
    /\ f[2] = 65 /\ f[3] \in 16..31
    /\ SubSeq(f, 4, 7) = <<0, 0, 0, 68>>

RolandSum(bytes) == (128 - (SumBytes(bytes) % 128)) % 128

C17_ChecksumReportedNotRejected ==
    (pure.fn = "parseSE02Response" /\ SE02EnvelopeValid(pure.arg)) =>
        /\ pure.out # None
        /\ LET r == pure.out[1]
               f == pure.arg
           IN  /\ r.checksum = f[Len(f) - 1]
               /\ r.valid <=> (r.checksum = RolandSum(r.address \o r.data))
               /\ Len(f) >= 14 =>
                     (r.valid <=> f[Len(f) - 1] = RolandSum(SubSeq(f, 9, Len(f) - 2)))

C17_Witness ==
    /\ pure.fn = "parseSE02Response" /\ SE02EnvelopeValid(pure.arg)
    /\ Len(pure.arg) = 16
    /\ pure.out # None /\ ~pure.out[1].valid

(***************************************************************************)
(* C18: parseSysExMessage, parseArturiaSysEx and parseSE02Response return  *)
(* null for every byte array that is shorter than the smallest envelope,   *)
(* does not start with 0xF0, does not end with 0xF7, or whose vendor or    *)
(* model bytes are not those of the dialect; the name and data response    *)
(* parsers return null for every frame parseArturiaSysEx rejects.          *)
(***************************************************************************)
Unframed(f, minLength) ==
    Len(f) < minLength \/ f[1] # SYSEX_START \/ f[Len(f)] # SYSEX_END

CommandParsers == {"parsePresetNameResponse", "parsePresetDataResponse"}

C18_EnvelopeParsersRejectBadFrames ==
    /\ (pure.fn = "parseSysExMessage" /\ Unframed(pure.arg, 4)) => pure.out = None
    /\ (pure.fn = "parseArturiaSysEx" /\ ~EnvelopeValid(pure.arg)) => pure.out = None
    /\ (pure.fn = "parseSE02Response" /\ ~SE02EnvelopeValid(pure.arg))
          => pure.out = None
    /\ (pure.fn \in CommandParsers
          /\ (~EnvelopeValid(pure.arg) \/ parseArturiaSysEx(pure.arg) = None))
          => pure.out = None

C18_Witness ==
    /\ pure.fn = "parsePresetNameResponse"
    /\ Len(pure.arg) = 22 /\ ~Unframed(pure.arg, 4)
    /\ pure.arg[3] # ARTURIA_MANUFACTURER_ID[2] /\ pure.arg[13] = RESPONSE_NAME
    /\ pure.out = None

(***************************************************************************)
(* C19: decoding the chunk the encoder produces for a step s returns s,    *)
(* for every step whose note and modulation lanes are each absent or a     *)
(* value in 0..127 other than 1 and 127.  As stated it fails for a note    *)
(* outside 36..96; it holds when the note is absent or in 36..96.          *)
(***************************************************************************)
NotSentinel(field) == field = None \/ field[1] \in (0..127) \ {1, 127}

LanesNotSentinel(s) ==
    NotSentinel(s.modA) /\ NotSentinel(s.modC) /\ NotSentinel(s.modD)

DecodedStep == pure.out[1]

C19_StepRoundTrip ==
    (pure.fn = "decodeSequence"
        /\ NotSentinel(pure.arg[1].note) /\ LanesNotSentinel(pure.arg[1]))
      => (Len(pure.out) >= 1 /\ DecodedStep = pure.arg[1])

C19_StepRoundTripInNoteRange ==
    (pure.fn = "decodeSequence"
        /\ (pure.arg[1].note = None \/ pure.arg[1].note[1] \in 36..96)
        /\ LanesNotSentinel(pure.arg[1]))
      => (Len(pure.out) >= 1 /\ DecodedStep = pure.arg[1])

C19_Witness ==
    /\ pure.fn = "decodeSequence"
    /\ pure.arg[1].gate /\ pure.arg[1].note = Some(96)
    /\ pure.arg[1].modA = Some(64) /\ pure.arg[1].modC = None
    /\ pure.arg[1].modD = Some(0)
    /\ pure.out = pure.arg

(***************************************************************************)
(* C20: for every step that has no gate the encoder writes the "off"       *)
(* sentinel 127 at bytes 1, 19 and 28 of the step's chunk.  As stated it   *)
(* fails for a lane that has a value; it holds for each absent lane, and a *)
(* lane that has a value is written with that value.                       *)
(***************************************************************************)
OFF_SENTINEL == 127

StepChunk == pure.out[SEQUENCE_START_CHUNK + 1]

LaneByte(lane) ==
    CASE lane = "modA" -> StepChunk[2]
      [] lane = "modC" -> StepChunk[20]
      [] lane = "modD" -> StepChunk[29]

C20_NoGateLanesOff ==
    (pure.fn = "encodeSequence" /\ ~pure.arg[1].gate) =>
        \A lane \in {"modA", "modC", "modD"} : LaneByte(lane) = OFF_SENTINEL

C20_NoGateAbsentLanesOff ==
    (pure.fn = "encodeSequence" /\ ~pure.arg[1].gate) =>
        \A lane \in {"modA", "modC", "modD"} :
           LET mod == pure.arg[1][lane]
           IN  LaneByte(lane) = IF mod = None THEN OFF_SENTINEL ELSE mod[1]

C20_Witness ==
    /\ pure.fn = "encodeSequence" /\ ~pure.arg[1].gate
    /\ pure.arg[1].modA = Some(64) /\ pure.arg[1].modC = None
    /\ pure.arg[1].modD = None
    /\ LaneByte("modA") = 64 /\ LaneByte("modC") = 127 /\ LaneByte("modD") = 127

(***************************************************************************)
(* C21: a modulation lane byte of a chunk that holds a sentinel (127 or 1) *)
(* decodes to absent and is written back as the same byte when the decoded *)
(* step is encoded again; every other lane byte is preserved.  As stated   *)
(* it fails: an absent lane is written back as 127, or as 1 for lane D of  *)
(* a step with a gate, whichever sentinel the chunk held.                  *)
(***************************************************************************)
Reencoded == pure.fn = "encodeSequence(decodeSequence)"

\* offsets (1-based) of the modulation lanes A, C, D and their step fields
ModLanes == {<<2, "modA">>, <<20, "modC">>, <<29, "modD">>}

SENTINELS == {127, 1}

ReencodedStep == pure.out[1][1]
ReencodedChunk == pure.out[2][SEQUENCE_START_CHUNK + 1]

C21_SentinelWrittenBack ==
    Reencoded =>
        \A l \in ModLanes :
           /\ pure.arg[l[1]] \in SENTINELS => ReencodedStep[l[2]] = None
           /\ ReencodedChunk[l[1]] = pure.arg[l[1]]

C21_SentinelWrittenAsDefault ==
    Reencoded =>
        \A l \in ModLanes :
           IF pure.arg[l[1]] \in SENTINELS
           THEN /\ ReencodedStep[l[2]] = None
                /\ ReencodedChunk[l[1]] =
                      IF l[2] = "modD" /\ pure.arg[10] = 0 THEN 1 ELSE 127
           ELSE ReencodedChunk[l[1]] = pure.arg[l[1]]

C21_Witness ==
    /\ Reencoded
    /\ pure.arg[10] = 0 /\ pure.arg[2] = 1 /\ pure.arg[20] = 64 /\ pure.arg[29] = 127
    /\ ReencodedStep.modA = None
    /\ ReencodedChunk[2] = 127 /\ ReencodedChunk[20] = 64 /\ ReencodedChunk[29] = 1

(***************************************************************************)
(* C22: the step decoded from a chunk has gate = true exactly when byte 9  *)
(* is 0, a note exactly when byte 10 lies in 36..96 (the note is then byte *)
(* 10), and each modulation lane (bytes 1, 19, 28) exactly when its byte   *)
(* is neither 127 nor 1; a chunk with bytes 9 and 10 both 127 decodes to   *)
(* gate false with no note.                                                *)
(***************************************************************************)
ChunkDecoded == pure.fn = "decodeSequence(chunks)"

DecodedPos == pure.arg[1]
DecodedChunk == pure.arg[2]

\* the step pushed for the chunk, when the loop did not stop before it
StepPushed == ChunkDecoded /\ Len(pure.out) > DecodedPos

PushedStep == pure.out[DecodedPos + 1]

C22_DecodedStepFields ==
    StepPushed =>
        /\ PushedStep.gate = (DecodedChunk[10] = 0)
        /\ PushedStep.note =
              IF DecodedChunk[11] \in 36..96 THEN Some(DecodedChunk[11]) ELSE None
        /\ \A l \in ModLanes :
              PushedStep[l[2]] =
                 IF DecodedChunk[l[1]] \in SENTINELS THEN None
                 ELSE Some(DecodedChunk[l[1]])
        /\ (DecodedChunk[10] = 127 /\ DecodedChunk[11] = 127) =>
              (~PushedStep.gate /\ PushedStep.note = None)

C22_Witness ==
    /\ StepPushed
    /\ DecodedChunk[10] = 127 /\ DecodedChunk[11] = 127
    /\ DecodedChunk[2] = 64 /\ DecodedChunk[29] = 1
    /\ ~PushedStep.gate /\ PushedStep.note = None
    /\ PushedStep.modA = Some(64) /\ PushedStep.modD = None

(***************************************************************************)
(* C23: for a list of steps of any length, more than 64 included,          *)
(* encodeSequence returns exactly 106 chunks of exactly 32 bytes; the      *)
(* first 30 chunks and every chunk after those of the encoded steps hold   *)
(* only the byte 127, and no step after the 64th is encoded.               *)
(***************************************************************************)
SequenceEncoded == pure.fn \in {"encodeSequence", "encodeSequence(steps)"}

EncodedStepCount == IF Len(pure.arg) < MAX_STEPS THEN Len(pure.arg) ELSE MAX_STEPS

AllSentinel(chunk) == \A b \in 1..Len(chunk) : chunk[b] = 127

C23_EncodedSequenceShape ==
    SequenceEncoded =>
        /\ Len(pure.out) = 106
        /\ \A i \in 1..Len(pure.out) :
              /\ Len(pure.out[i]) = CHUNK_SIZE
              /\ (i <= SEQUENCE_START_CHUNK
                    \/ i > SEQUENCE_START_CHUNK + EncodedStepCount)
                 => AllSentinel(pure.out[i])
        /\ \A i \in 1..EncodedStepCount :
              pure.arg[i].note # None =>
                 pure.out[SEQUENCE_START_CHUNK + i][11] = pure.arg[i].note[1]

C23_Witness ==
    /\ pure.fn = "encodeSequence(steps)"
    /\ Len(pure.arg) = 65
    /\ pure.arg[65].note = Some(100)
    /\ Len(pure.out) = 106
    /\ pure.out[SEQUENCE_START_CHUNK + 64][11] = 99
    /\ AllSentinel(pure.out[SEQUENCE_START_CHUNK + 65])

(***************************************************************************)
(* C24: encodePresetName always yields exactly 16 bytes, zero after the    *)
(* characters of the name, and parsePresetName gives the name back for     *)
(* every name of at most 16 seven-bit characters that holds no NUL and has *)
(* no whitespace at either end, "Inbound" among them.                      *)
(***************************************************************************)
NameEncoded == pure.fn = "encodePresetName"

EncodedNameBytes == pure.out[1]
ParsedBackName == pure.out[2]

RoundTripName(name) ==
    /\ Len(name) <= 16
    /\ \A i \in 1..Len(name) : name[i] \in 1..127
    /\ name # <<>> => (name[1] \notin WHITESPACE /\ name[Len(name)] \notin WHITESPACE)

C24_NameRoundTrip ==
    NameEncoded =>
        /\ Len(EncodedNameBytes) = 16
        /\ \A i \in 1..16 : i > Len(pure.arg) => EncodedNameBytes[i] = 0
        /\ RoundTripName(pure.arg) => ParsedBackName = pure.arg

C24_Witness ==
    /\ NameEncoded
    /\ pure.arg = INBOUND
    /\ EncodedNameBytes = INBOUND \o <<0, 0, 0, 0, 0, 0, 0, 0, 0>>
    /\ ParsedBackName = INBOUND

(***************************************************************************)
(* C25: loading preset slot N, the 1-based number of the hardware display, *)
(* sends a Program Change whose program number is N - 1.  It fails for the *)
(* MicroFreak driver, which sends N & 0x7F.                                *)
(***************************************************************************)
PresetLoaded == pure.fn = "loadPreset" /\ pure.out # None

ProgramSent == pure.out[1][2]

C25_ProgramIsSlotMinusOne ==
    PresetLoaded => ProgramSent = pure.arg.slot - 1

(***************************************************************************)
(* C26: during scanPresets the listener installed for the slot being read  *)
(* is removed only by that slot's own response or that slot's own timeout  *)
(* (a failed send removes it within the call that installed it); the timer *)
(* of a read that has settled never removes it.  It fails: the timer of a  *)
(* resolved read is not cleared and disables the input when it fires.      *)
(***************************************************************************)
ListenerRemoved == port.listening /\ ~port'.listening

OwnResponse == lastEvent'.kind = "frame"

FiredTimers == scan.timeouts \ scan'.timeouts

OwnTimeout == lastEvent'.timer = "timeout" /\ FiredTimers = {slot}

C26_ListenerRemovedByOwnRead ==
    [][ListenerRemoved => (OwnResponse \/ OwnTimeout)]_vars

(***************************************************************************)
(* C27: whenever readPreset or readPresetName has settled, on any path,    *)
(* the SysEx listener it enabled is no longer registered on the port.  It  *)
(* fails for readPreset when the name request cannot be sent: the promise  *)
(* is rejected and the listener stays.                                     *)
(***************************************************************************)
ListenerRegistered == port.listening \/ port.sysexCallback # "none"

C27_SettledReadLeavesNoListener ==
    (op \in Ops /\ settled \in {"resolved", "rejected"}) => ~ListenerRegistered

(***************************************************************************)
(* C28: in a readPreset transfer the chunk requests sent so far carry the  *)
(* indices 0, 1, 2, ... in this order, each once and each below            *)
(* chunkCount, whatever frames arrive, duplicated or unsolicited data      *)
(* frames included.                                                        *)
(***************************************************************************)
IsChunkRequest(entry) == RequestKind(entry.msg) = "chunk"

\* the chunk numbers of the chunk requests sent, in the order sent
ChunkIndicesSent ==
    LET requests == SelectSeq(sent, IsChunkRequest)
    IN  [k \in 1..Len(requests) |-> requests[k].msg[7]]

SE02Parsed == pure.fn = "parseSE02Response" /\ pure.out # None

C29_SE02FieldsPartitionMessage ==
    SE02Parsed =>
        /\ Len(pure.out[1].address) = 4
        /\ pure.arg = SubSeq(pure.arg, 1, 8) \o pure.out[1].address
                        \o pure.out[1].data \o <<pure.out[1].checksum>> \o <<247>>

(***************************************************************************)
(* C30: for every name response parsePresetNameResponse accepts, the name  *)
(* returned has at most 12 characters and is read only from the bytes      *)
(* before the category byte (offset 19 of the payload), so it never holds  *)
(* the category byte.  It fails: the name runs to the first zero byte or   *)
(* to the end of the payload.                                              *)
(***************************************************************************)
NameAccepted == pure.fn = "parsePresetNameResponse" /\ pure.out # None

NAME_OFFSET == 12
CATEGORY_OFFSET == 19

C30_NameStopsBeforeCategory ==
    NameAccepted =>
        /\ Len(pure.out[1].name) <= 12
        /\ NAME_OFFSET + Len(pure.out[1].name) <= CATEGORY_OFFSET

====
